---- MODULE Spec2Model ----
(***************************************************************************)
(* A model of FileDirPlugin (filedir/filedir/filedir.py): the provider     *)
(* (ingest, _queue), the connector (save) and the archiver (archive, get). *)
(*                                                                         *)
(* Representation.  A path is a sequence of segments and a segment is a    *)
(* sequence of one-character strings, so that the code's string slicing    *)
(* (filename[:5], name.startswith('.')) is computed and not assumed.       *)
(* An absolute path starts with the segment Root.  The filesystem is the   *)
(* pair (files, dirs): files maps the path of each regular file to its     *)
(* bytes, dirs is the set of directories.                                  *)
(***************************************************************************)
EXTENDS Integers, Sequences, FiniteSets, TLC

VARIABLES
    config,     \* the fields __init__ reads from the configuration
    today,      \* the day datetime.now() falls on
    files,      \* filesystem: path of a regular file -> its bytes
    dirs,       \* filesystem: the directories
    last,       \* the outcome of the last completed save/archive/get call
    nops,       \* number of completed save/archive/get calls
    firstSaved, \* history: path -> what the first save aimed at it serialised
    issued,     \* history: the (payload, locator) pairs archive has returned
    writers,    \* the two racing writers: operation, position, outcome
    kind,       \* source tree: node -> "file" | "dir" | "special"
    unreadable, \* source tree: the nodes open() fails on
    reversed,   \* source tree: the order the OS lists a directory in
    pc,         \* ingest: position in the coroutine
    exc,        \* ingest: the exception it ended with
    plan,       \* ingest: the paths the loops of ingest visit, in order
    pos,        \* ingest: index in plan of the path being handled
    opened,     \* ingest: the source files currently open
    pending,    \* ingest: Work Units read and not yet accepted by the queue
    reads,      \* ingest: number of source files opened so far
    queue,      \* the host's asyncio.Queue
    emitted,    \* history: every Work Unit the queue has accepted
    consumed    \* history: the Work Units the host has taken

storeVars == <<config, today, files, dirs, last, nops, firstSaved, issued>>
raceVars == <<writers>>
treeVars == <<kind, unreadable, reversed>>
ingestVars == <<pc, exc, plan, pos, opened, pending, reads, queue, emitted, consumed>>
vars == <<storeVars, raceVars, treeVars, ingestVars>>

----------------------------------------------------------------------------
(* Bounds of the model *)

MaxOps == 3        \* save/archive/get calls in one behaviour
MaxDay == 2        \* days datetime.now() ranges over
NumContents == 3   \* distinct payload contents
NumIds == 2        \* distinct payload_id / scan_id values
NumNodes == 8      \* entries of the source tree
MaxQueue == 2      \* maxsize of the host's queue

----------------------------------------------------------------------------
(* Strings *)

Root == <<"/">>
Cwd == <<Root, <<"w">>>>

\* The payload contents of the model (bytes, one character each) and their
\* real SHA-1 hex digests.  b"du" and b"adb" share their first five hex
\* characters; b"hello" hashes to aaf4c61ddcc5e8a2dabede0f3b482cd9aea9434d.
ContentTable ==
    << <<"d","u">>, <<"a","d","b">>, <<"h","e","l","l","o">>, <<"s","t","o","q">> >>

DigestTable ==
    << <<"f","a","1","1","4","3","7","7","e","f","3","5","b","2","5","e","c","a","a","4",
         "d","5","7","e","5","0","8","4","6","4","1","5","4","3","e","0","2","5","8","8">>,
       <<"f","a","1","1","4","3","d","e","a","1","2","b","f","f","b","b","c","1","a","a",
         "9","9","d","5","d","a","2","e","c","8","1","1","d","6","3","b","5","1","2","7">>,
       <<"a","a","f","4","c","6","1","d","d","c","c","5","e","8","a","2","d","a","b","e",
         "d","e","0","f","3","b","4","8","2","c","d","9","a","e","a","9","4","3","4","d">>,
       <<"9","4","1","c","1","a","a","4","c","1","c","8","7","4","6","2","0","9","9","d",
         "5","f","4","9","4","1","d","0","2","b","d","d","c","e","0","8","e","d","d","3">> >>

Contents == {ContentTable[i] : i \in 1..NumContents}

\* hashlib.sha1(content).hexdigest()
Sha1Hex(content) ==
    DigestTable[CHOOSE i \in 1..Len(ContentTable) : ContentTable[i] = content]

IdTable == << <<"p","1">>, <<"p","2">>, <<"p","3">> >>
Ids == {IdTable[i] : i \in 1..NumIds}
Bodies == {"r1", "r2"}

\* the day of the month, for the days 1..MaxDay of the model
DayTable == << <<"0","1">>, <<"0","2">>, <<"0","3">> >>

\* datetime.now().strftime('%Y/%m/%d'): interpolated into the path, its two
\* slashes make three segments.
Strftime(day) == << <<"2","0","2","6">>, <<"1","1">>, DayTable[day] >>

\* filename[:n]
Take(s, n) == SubSeq(s, 1, IF n < Len(s) THEN n ELSE Len(s))

\* f'{path}/{"/".join(list(filename[:5]))}': one segment per character
ShardSegs(filename) == [i \in 1..Len(Take(filename, 5)) |-> <<filename[i]>>]

\* os.path.abspath: a relative path is joined to the working directory,
\* then empty and "." segments are dropped.
Abspath(p) ==
    LET abs == IF p # <<>> /\ p[1] = Root THEN p ELSE Cwd \o p
    IN  SelectSeq(abs, LAMBDA s : s # <<>> /\ s # <<".">>)

\* os.path.basename, os.path.dirname
Basename(p) == p[Len(p)]
Dirname(p) == SubSeq(p, 1, Len(p) - 1)

\* helpers.dumps(response, compactly=...) followed by '\n'
Dumps(response, compactly) ==
    IF compactly
    THEN <<"{", response.scan_id, response.body, "}">>
    ELSE <<"{", "\n", response.scan_id, "\n", response.body, "\n", "}">>

Serialised(response, compactly) == Append(Dumps(response, compactly), "\n")

----------------------------------------------------------------------------
(* Configuration *)

ResultsDir == Cwd \o << <<"r","e","s","u","l","t","s">> >>
ArchiveDir == Cwd \o << <<"a","r","c","h","i","v","e">> >>
SourceDir == Cwd \o << <<"s","r","c">> >>

Configs ==
    [ source_dir  : {"unset", "dir", "file", "missing"},
      recursive   : BOOLEAN,
      results_dir : {ResultsDir},
      date_mode   : BOOLEAN,
      compactly   : BOOLEAN,
      archive_dir : {ArchiveDir},
      use_sha     : BOOLEAN ]

----------------------------------------------------------------------------
(* Filesystem primitives *)

\* Path(path).mkdir(parents=True, exist_ok=True)
Mkdir(ds, path) == ds \cup {SubSeq(path, 1, n) : n \in 1..Len(path)}

\* open(target, 'w') for comparison: it opens whether or not the file exists
CanCreateAlways(fs, target) == TRUE

\* open(target, 'x'): the file is created empty, or FileExistsError

CanCreate(fs, target) == target \notin DOMAIN fs

\* outfile.write(data) on the file just created
WriteFile(fs, target, data) ==
    [p \in DOMAIN fs \cup {target} |-> IF p = target THEN data ELSE fs[p]]

----------------------------------------------------------------------------
(* save: the target of a Result Record *)

Responses == [scan_id : Ids, body : Bodies]

\* save, lines 95-100
SaveDir(day) ==
    Abspath(IF config.date_mode
            THEN config.results_dir \o Strftime(day)
            ELSE config.results_dir)

\* save, line 102: f'{path}/{filename}' with filename = response.scan_id
SaveTarget(response, day) == Append(SaveDir(day), response.scan_id)

(* archive: the target of a payload *)

Payloads == [content : Contents, payload_id : Ids]

\* for comparison: the file named after the shard prefix only
ArchiveFilenamePrefix(payload) ==
    IF config.use_sha THEN Take(Sha1Hex(payload.content), 5) ELSE payload.payload_id

\* archive, lines 111-113
ArchiveFilename(payload) ==
    IF config.use_sha THEN Sha1Hex(payload.content) ELSE payload.payload_id

\* for comparison: the two branches of lines 112-117 in the other order
ArchiveDirDateFirst(payload, day) ==
    Abspath(IF config.date_mode
            THEN config.archive_dir \o Strftime(day)
            ELSE IF config.use_sha
                 THEN config.archive_dir \o ShardSegs(ArchiveFilename(payload))
                 ELSE config.archive_dir)

\* archive, lines 110-118: use_sha is tested first, date_mode only without it
ArchiveDirOf(payload, day) ==
    Abspath(IF config.use_sha
            THEN config.archive_dir \o ShardSegs(ArchiveFilename(payload))
            ELSE IF config.date_mode
                 THEN config.archive_dir \o Strftime(day)
                 ELSE config.archive_dir)

\* archive, lines 121 and 125: f'{path}/{filename}'
ArchiveTarget(payload, day) == Append(ArchiveDirOf(payload, day), ArchiveFilename(payload))

\* for comparison: archive without its except clause
ArchiveStatusRaising(created) == IF created THEN "ok" ELSE "FileExistsError"

\* archive, lines 120-125: FileExistsError is caught and passed over
ArchiveStatus(created) == "ok"

\* save, lines 102-103: nothing catches FileExistsError
SaveStatus(created) == IF created THEN "ok" ELSE "FileExistsError"

Locator(path) == [path |-> path]

NoPayload == [content |-> <<>>, payload_id |-> <<>>]
NoResponse == [scan_id |-> <<>>, body |-> "none"]

NoCall ==
    [op |-> "none", status |-> "ok", payload |-> NoPayload, response |-> NoResponse,
     path |-> <<>>, data |-> <<>>, meta |-> Locator(<<>>), created |-> FALSE,
     fresh |-> FALSE]

----------------------------------------------------------------------------
(* The connector and the archiver, one call at a time *)

\* save, lines 89-103
Save(response) ==
    LET dir == SaveDir(today)
        target == SaveTarget(response, today)
        data == Serialised(response, config.compactly)
        created == CanCreate(files, target)
    IN  /\ nops < MaxOps
        /\ nops' = nops + 1
        /\ dirs' = Mkdir(dirs, dir)
        /\ files' = IF created THEN WriteFile(files, target, data) ELSE files
        /\ firstSaved' = IF target \in DOMAIN firstSaved
                         THEN firstSaved
                         ELSE WriteFile(firstSaved, target, data)
        /\ last' = [NoCall EXCEPT !.op = "save", !.status = SaveStatus(created),
                                  !.response = response, !.path = target,
                                  !.data = data, !.created = created]
        /\ UNCHANGED <<config, today, issued>>

\* archive, lines 105-125
Archive(payload) ==
    LET dir == ArchiveDirOf(payload, today)
        target == ArchiveTarget(payload, today)
        created == CanCreate(files, target)
        status == ArchiveStatus(created)
    IN  /\ nops < MaxOps
        /\ nops' = nops + 1
        /\ dirs' = Mkdir(dirs, dir)
        /\ files' = IF created THEN WriteFile(files, target, payload.content) ELSE files
        /\ issued' = IF status = "ok"
                     THEN issued \cup {[payload |-> payload, locator |-> Locator(target)]}
                     ELSE issued
        /\ last' = [NoCall EXCEPT !.op = "archive", !.status = status,
                                  !.payload = payload, !.path = target,
                                  !.data = payload.content, !.created = created]
        /\ UNCHANGED <<config, today, firstSaved>>

\* get, lines 127-135.  task is a locator archive returned, together with
\* the payload that call was given; fresh says that call was the last one.
Get(task) ==
    LET path == Abspath(task.locator.path)
        found == path \in DOMAIN files
    IN  /\ nops < MaxOps
        /\ nops' = nops + 1
        /\ last' = [NoCall EXCEPT
                      !.op = "get",
                      !.status = IF found THEN "ok" ELSE "FileNotFoundError",
                      !.payload = task.payload,
                      !.path = path,
                      !.data = IF found THEN files[path] ELSE <<>>,
                      !.meta = IF found THEN task.locator ELSE Locator(<<>>),
                      !.fresh = /\ last.op = "archive"
                                /\ last.status = "ok"
                                /\ last.payload = task.payload
                                /\ Locator(last.path) = task.locator]
        /\ UNCHANGED <<config, today, files, dirs, firstSaved, issued>>

\* a locator of a file nobody archived
StrayTask ==
    [payload |-> NoPayload, locator |-> Locator(ArchiveDir \o << <<"n","o">> >>)]

\* datetime.now() moves to the next day between two calls
Tick ==
    /\ today < MaxDay
    /\ today' = today + 1
    /\ UNCHANGED <<config, files, dirs, last, nops, firstSaved, issued>>

EmptyFs == [p \in {} |-> <<>>]

StoreIdle ==
    /\ today = 1
    /\ files = EmptyFs
    /\ dirs = {<<Root>>, Cwd}
    /\ last = NoCall
    /\ nops = 0
    /\ firstSaved = EmptyFs
    /\ issued = {}

StoreInit ==
    /\ config \in {c \in Configs : c.source_dir = "unset" /\ ~c.recursive}
    /\ StoreIdle

RaceIdle == writers = <<>>

TreeIdle ==
    /\ kind = <<>>
    /\ unreadable = {}
    /\ reversed = FALSE

IngestIdle ==
    /\ pc = "idle"
    /\ exc = "none"
    /\ plan = <<>>
    /\ pos = 1
    /\ opened = {}
    /\ pending = <<>>
    /\ reads = 0
    /\ queue = <<>>
    /\ emitted = <<>>
    /\ consumed = <<>>

SaveCall == \E response \in Responses : Save(response)
ArchiveCall == \E payload \in Payloads : Archive(payload)
GetCall == \E task \in issued \cup {StrayTask} : Get(task)

\* The connector alone: archive_dir and results_dir are different
\* directories, so no archive call touches what save reads or writes
SaveInit == StoreInit /\ config.use_sha /\ RaceIdle /\ TreeIdle /\ IngestIdle

SaveNext ==
    \/ SaveCall /\ UNCHANGED <<raceVars, treeVars, ingestVars>>
    \/ Tick /\ UNCHANGED <<raceVars, treeVars, ingestVars>>

\* save called again and again by the host, the date moving on
SpecSave == SaveInit /\ [][SaveNext]_vars

\* The archiver alone
ArchiveInit == StoreInit /\ config.compactly /\ RaceIdle /\ TreeIdle /\ IngestIdle

ArchiveNext ==
    \/ ArchiveCall /\ UNCHANGED <<raceVars, treeVars, ingestVars>>
    \/ GetCall /\ UNCHANGED <<raceVars, treeVars, ingestVars>>
    \/ Tick /\ UNCHANGED <<raceVars, treeVars, ingestVars>>

\* archive and get called one after another by the host, the date moving on
SpecArchive == ArchiveInit /\ [][ArchiveNext]_vars

----------------------------------------------------------------------------
(* Claims about save, archive and get called one after another *)

SaveStep == nops' = nops + 1 /\ last'.op = "save"
ArchiveStep == nops' = nops + 1 /\ last'.op = "archive"

\* the scan identifiers some result file is named after
SavedScanIds == {Basename(p) : p \in DOMAIN firstSaved}

\* C1, as stated: a save whose scan identifier no earlier save used succeeds
\* and creates the file; a save whose scan identifier an earlier save to the
\* same results_dir used fails with FileExistsError and changes no file.
C1_SecondSaveOfScanIdFails ==
    [][SaveStep =>
         IF last'.response.scan_id \in SavedScanIds
         THEN last'.status = "FileExistsError" /\ files' = files
         ELSE /\ last'.status = "ok"
              /\ last'.path \notin DOMAIN files
              /\ files'[last'.path] = last'.data]_vars

\* C1, amended: the write-once rule is per target path, which is
\* results_dir/<scan_id>, or results_dir/<date>/<scan_id> under date_mode.
\* A save to a path where no file exists succeeds and creates the file with
\* the serialised record; a save to a path where a file exists fails with
\* FileExistsError and changes no file; and at all times a result file holds
\* the serialisation of the first record saved to its path.
C1_WriteOncePerPath ==
    /\ [](\A p \in DOMAIN firstSaved : p \in DOMAIN files /\ files[p] = firstSaved[p])
    /\ [][SaveStep =>
            /\ last'.path =
                 config.results_dir
                   \o (IF config.date_mode THEN Strftime(today) ELSE <<>>)
                   \o <<last'.response.scan_id>>
            /\ last'.data = Serialised(last'.response, config.compactly)
            /\ IF last'.path \in DOMAIN files
               THEN last'.status = "FileExistsError" /\ files' = files
               ELSE /\ last'.status = "ok"
                    /\ DOMAIN files' = DOMAIN files \cup {last'.path}
                    /\ files'[last'.path] = last'.data
                    /\ \A p \in DOMAIN files : files'[p] = files[p]]_vars

\* C1 witness: a second save to a path failed, it carried another record
\* than the first, and the file still holds the first one.
C1_Witness ==
    /\ last.op = "save"
    /\ last.status = "FileExistsError"
    /\ last.path \in DOMAIN files
    /\ files[last.path] # last.data
    /\ files[last.path] = firstSaved[last.path]

\* C2: an archive call changes the bytes of no file that exists, whatever
\* use_sha and date_mode are, and it returns a locator without an error
\* also when the file it aims at is already there.
C2_ArchiveNeverOverwrites ==
    [][ArchiveStep =>
         /\ \A p \in DOMAIN files : p \in DOMAIN files' /\ files'[p] = files[p]
         /\ last'.status = "ok"
         /\ [payload |-> last'.payload, locator |-> Locator(last'.path)] \in issued']_vars

\* C2 witness: an archive call found a file with other bytes at its path.
C2_Witness ==
    /\ last.op = "archive"
    /\ ~last.created
    /\ last.status = "ok"
    /\ files[last.path] # last.payload.content

\* C3, as stated: get of the locator that the archive call just before it
\* returned yields the bytes of the payload given to that call, with the
\* locator's fields as metadata, in every configuration.
C3_GetReturnsArchivedPayload ==
    (last.op = "get" /\ last.fresh) =>
        /\ last.status = "ok"
        /\ last.data = last.payload.content
        /\ last.meta = Locator(last.path)

\* C4: with use_sha set, archiving bytes that were archived before returns
\* the locator every earlier call returned for them, raises nothing and
\* leaves files and directories as they were, whatever the payload_id,
\* date_mode and the day of each call.
C4_SameContentSameLocator ==
    [][(ArchiveStep /\ config.use_sha) =>
         /\ last'.status = "ok"
         /\ \A t \in issued :
              t.payload.content = last'.payload.content =>
                /\ t.locator = Locator(last'.path)
                /\ files' = files
                /\ dirs' = dirs]_vars

\* C4 witness: the same bytes archived again under another payload_id, on
\* another day, with date_mode set.
C4_Witness ==
    /\ config.use_sha /\ config.date_mode
    /\ today > 1
    /\ last.op = "archive"
    /\ ~last.created
    /\ \E t \in issued : /\ t.payload.content = last.payload.content
                         /\ t.payload.payload_id # last.payload.payload_id

\* C5: with use_sha set, distinct contents get distinct locators, and each
\* locator is archive_dir, then the first five hex characters of the
\* content's SHA-1 digest as five directories, then the whole digest; no
\* date segment appears even under date_mode.
C5_ShardedLayout ==
    config.use_sha =>
      \A a \in issued :
        LET digest == Sha1Hex(a.payload.content)
            base == Len(config.archive_dir)
            path == a.locator.path
        IN  /\ Len(path) = base + 6
            /\ SubSeq(path, 1, base) = config.archive_dir
            /\ \A i \in 1..5 : path[base + i] = <<digest[i]>>
            /\ path[base + 6] = digest
            /\ Len(digest) = 40
            /\ \A b \in issued :
                 a.payload.content # b.payload.content => a.locator # b.locator

\* C5 witness: two contents whose digests share the first five characters
\* have both been archived, under date_mode.
C5_Witness ==
    /\ config.use_sha /\ config.date_mode
    /\ \E a, b \in issued :
         /\ a.payload.content # b.payload.content
         /\ Take(Sha1Hex(a.payload.content), 5) = Take(Sha1Hex(b.payload.content), 5)

----------------------------------------------------------------------------
(* Two writers whose calls interleave at the filesystem operations *)

Writer(op, payload, response) ==
    [op |-> op, payload |-> payload, response |-> response, pc |-> "start",
     target |-> <<>>, buf |-> <<>>, created |-> FALSE, status |-> "running"]

RaceWriters ==
    {<<Writer("archive", p1, NoResponse), Writer("archive", p2, NoResponse)>> :
        p1 \in Payloads, p2 \in Payloads}
    \cup
    {<<Writer("save", NoPayload, r1), Writer("save", NoPayload, r2)>> :
        r1 \in Responses, r2 \in Responses}

\* the bytes a writer's call writes: lines 103 and 122
WriterData(w) ==
    IF w.op = "save" THEN Serialised(w.response, config.compactly) ELSE w.payload.content

\* save lines 95-101, archive lines 110-119: the path is computed from
\* datetime.now() and the directories are made
RaceMkdir(i) ==
    LET w == writers[i]
        dir == IF w.op = "save" THEN SaveDir(today) ELSE ArchiveDirOf(w.payload, today)
        target == IF w.op = "save" THEN SaveTarget(w.response, today)
                                   ELSE ArchiveTarget(w.payload, today)
    IN  /\ w.pc = "start"
        /\ dirs' = Mkdir(dirs, dir)
        /\ writers' = [writers EXCEPT ![i].pc = "open", ![i].target = target]
        /\ UNCHANGED <<config, today, files, last, nops, firstSaved, issued>>

\* save line 102, archive line 121: open(..., 'x') creates the file empty
\* or raises FileExistsError, which archive passes over and save lets out
RaceOpen(i) ==
    LET w == writers[i]
        created == CanCreate(files, w.target)
    IN  /\ w.pc = "open"
        /\ files' = IF created THEN WriteFile(files, w.target, <<>>) ELSE files
        /\ writers' = IF created
                      THEN [writers EXCEPT ![i].pc = "write", ![i].created = TRUE]
                      ELSE [writers EXCEPT
                              ![i].pc = "done",
                              ![i].status = IF w.op = "save" THEN SaveStatus(FALSE)
                                                             ELSE ArchiveStatus(FALSE)]
        /\ UNCHANGED <<config, today, dirs, last, nops, firstSaved, issued>>

\* save line 103, archive line 122: outfile.write puts the bytes in the
\* file object's buffer, which may or may not reach the file before close
RaceWrite(i) ==
    LET w == writers[i]
    IN  /\ w.pc = "write"
        /\ writers' = [writers EXCEPT ![i].pc = "close", ![i].buf = WriterData(w)]
        /\ \E flushed \in BOOLEAN :
             files' = IF flushed THEN WriteFile(files, w.target, WriterData(w)) ELSE files
        /\ UNCHANGED <<config, today, dirs, last, nops, firstSaved, issued>>

\* the end of the with block closes the file, flushing the buffer; then
\* save returns None and archive returns the locator (line 125)
RaceClose(i) ==
    LET w == writers[i]
    IN  /\ w.pc = "close"
        /\ files' = WriteFile(files, w.target, w.buf)
        /\ writers' = [writers EXCEPT
                         ![i].pc = "done",
                         ![i].status = IF w.op = "save" THEN SaveStatus(TRUE)
                                                        ELSE ArchiveStatus(TRUE)]
        /\ UNCHANGED <<config, today, dirs, last, nops, firstSaved, issued>>

RaceInit ==
    /\ StoreInit
    /\ writers \in RaceWriters
    /\ TreeIdle
    /\ IngestIdle

MkdirStep == \E i \in 1..2 : RaceMkdir(i)
OpenStep == \E i \in 1..2 : RaceOpen(i)
WriteStep == \E i \in 1..2 : RaceWrite(i)
CloseStep == \E i \in 1..2 : RaceClose(i)

RaceNext ==
    \/ MkdirStep /\ UNCHANGED <<treeVars, ingestVars>>
    \/ OpenStep /\ UNCHANGED <<treeVars, ingestVars>>
    \/ WriteStep /\ UNCHANGED <<treeVars, ingestVars>>
    \/ CloseStep /\ UNCHANGED <<treeVars, ingestVars>>
    \/ Tick /\ UNCHANGED <<raceVars, treeVars, ingestVars>>

\* Two calls of the same operation racing on one filesystem
SpecRace == RaceInit /\ [][RaceNext]_vars

BothDone == writers[1].pc = "done" /\ writers[2].pc = "done"
SameTarget == writers[1].target = writers[2].target

\* C8: when two writers race on one target path, at every moment the file
\* is empty or holds exactly the bytes of the writer that created it, and
\* once both are done exactly one of them created it and its bytes are the
\* file's; for archive both got the locator without an error, for save the
\* creator succeeded and the other got FileExistsError.
C8_FirstWriterWins ==
    /\ \A p \in DOMAIN files :
         \/ files[p] = <<>>
         \/ \E i \in 1..2 : /\ writers[i].created
                            /\ writers[i].target = p
                            /\ files[p] = WriterData(writers[i])
    /\ (BothDone /\ SameTarget) =>
         \E i \in 1..2 :
           LET win == writers[i]
               lose == writers[3 - i]
           IN  /\ win.created /\ ~lose.created
               /\ win.status = "ok"
               /\ files[win.target] = WriterData(win)
               /\ lose.status = IF lose.op = "archive" THEN "ok" ELSE "FileExistsError"
               /\ Locator(lose.target) = Locator(win.target)

\* C8 witness: both writers are done with the same path, they carried
\* different bytes, and the one that lost had made its directories first.
C8_Witness ==
    /\ BothDone /\ SameTarget
    /\ WriterData(writers[1]) # WriterData(writers[2])
    /\ writers[2].created
    /\ files[writers[1].target] = WriterData(writers[2])

----------------------------------------------------------------------------
(* The source tree ingest walks *)

\* The entries below source_dir: node n is called NodeName[n] and lies in
\* the directory NodeParent[n], 0 being source_dir itself.
NodeName ==
    << <<"a">>, <<".","h">>, <<"s">>, <<"c">>, <<"b">>, <<"t">>, <<".","d">>, <<"e">>,
       <<"f">> >>

NodeParent == <<0, 0, 0, 0, 3, 3, 6, 2, 6>>

\* What an entry can be.  "file" is what entry.is_file() accepts; "special"
\* is an entry that is neither that nor a directory (a FIFO, a device
\* node), which os.walk lists among the filenames of its directory.
NodeKinds ==
    << {"file", "special"}, {"file", "dir"}, {"dir"}, {"file"},
       {"file", "special"}, {"dir"}, {"file"}, {"file"}, {"file"} >>

Nodes == 1..NumNodes

NodeContent(n) == ContentTable[(n % Len(ContentTable)) + 1]

RECURSIVE NodeExists(_)
NodeExists(n) ==
    \/ NodeParent[n] = 0
    \/ kind[NodeParent[n]] = "dir" /\ NodeExists(NodeParent[n])

\* os.path.join(root_path, entry) for the entry of node n
RECURSIVE NodePath(_)
NodePath(n) ==
    IF n = 0 THEN SourceDir ELSE Append(NodePath(NodeParent[n]), NodeName[n])

Reverse(s) == [i \in 1..Len(s) |-> s[Len(s) + 1 - i]]

\* os.scandir(d): the entries of directory d, in the order the OS gives
Scandir(d) ==
    LET entries == SelectSeq([i \in 1..NumNodes |-> i],
                             LAMBDA n : NodeParent[n] = d /\ NodeExists(n))
    IN  IF reversed THEN Reverse(entries) ELSE entries

\* name.startswith('.')
StartsWithDot(name) == Len(name) >= 1 /\ name[1] = "."

\* for comparison: line 69 without the test of the leading dot
ScandirKeepsHidden(n) == kind[n] = "file"

\* ingest, line 69

ScandirKeeps(n) == ~StartsWithDot(NodeName[n]) /\ kind[n] = "file"

\* ingest, lines 63-64: os.walk yields a directory's non-directory entries
\* as files, then walks its subdirectories, top down
RECURSIVE Walk(_), WalkEach(_)
WalkEach(ds) == IF ds = <<>> THEN <<>> ELSE Walk(Head(ds)) \o WalkEach(Tail(ds))

Walk(d) ==
    LET entries == Scandir(d)
    IN  SelectSeq(entries, LAMBDA n : kind[n] # "dir")
          \o WalkEach(SelectSeq(entries, LAMBDA n : kind[n] = "dir"))

\* ingest, lines 61-73: the entries _queue is called on, in order.  The
\* tree does not change during the walk, so the lazy iteration visits
\* exactly this sequence.
IngestPlan ==
    CASE config.source_dir = "dir" /\ config.recursive -> Walk(0)
      [] config.source_dir = "dir" /\ ~config.recursive ->
            SelectSeq(Scandir(0), ScandirKeeps)
      [] config.source_dir = "file" -> <<0>>
      [] OTHER -> <<>>

\* _queue, lines 80-87: the Work Unit of the file at node n
Unit(n) ==
    [content |-> NodeContent(n),
     filename |-> Basename(NodePath(n)),
     source_dir |-> Dirname(NodePath(n))]

\* for comparison: open() without the with block, the file is never closed
CloseFileNever(os, path) == os

\* _queue, line 86: leaving the with block closes the file

CloseFile(os, path) == os \ {path}

\* for comparison: the error caught and the loop going on to the next file
OnReadErrorSkip == [pc |-> "iter", exc |-> exc, pos |-> pos + 1]

\* _queue, line 86: open() raises and nothing in _queue or ingest catches it

OnReadError == [pc |-> "raised", exc |-> "OSError", pos |-> pos]

----------------------------------------------------------------------------
(* The provider *)

\* ingest, lines 59-62 and 72
IngestStart ==
    /\ pc = "idle"
    /\ IF config.source_dir = "unset"
       THEN pc' = "raised" /\ exc' = "StoqPluginException" /\ plan' = <<>>
       ELSE pc' = "iter" /\ exc' = exc /\ plan' = IngestPlan
    /\ UNCHANGED <<pos, opened, pending, reads, queue, emitted, consumed>>

\* _queue, lines 80-87 up to f.read(): the next file is opened and read
QueueRead ==
    /\ pc = "iter"
    /\ pos <= Len(plan)
    /\ LET n == plan[pos]
       IN  IF n \in unreadable
           THEN /\ pc' = OnReadError.pc
                /\ exc' = OnReadError.exc
                /\ pos' = OnReadError.pos
                /\ UNCHANGED <<opened, pending, reads>>
           ELSE /\ pc' = "put"
                /\ opened' = opened \cup {NodePath(n)}
                /\ pending' = Append(pending, Unit(n))
                /\ reads' = reads + 1
                /\ UNCHANGED <<exc, pos>>
    /\ UNCHANGED <<plan, queue, emitted, consumed>>

\* _queue, line 87: await queue.put(...) returns once the queue has room;
\* then the with block ends and the loop goes on
QueuePut ==
    /\ pc = "put"
    /\ Len(queue) < MaxQueue
    /\ queue' = Append(queue, Head(pending))
    /\ emitted' = Append(emitted, Head(pending))
    /\ pending' = Tail(pending)
    /\ opened' = CloseFile(opened, NodePath(plan[pos]))
    /\ pos' = pos + 1
    /\ pc' = "iter"
    /\ UNCHANGED <<exc, plan, reads, consumed>>

\* ingest: the loops are exhausted and the coroutine returns
IngestReturn ==
    /\ pc = "iter"
    /\ pos > Len(plan)
    /\ pc' = "done"
    /\ UNCHANGED <<exc, plan, pos, opened, pending, reads, queue, emitted, consumed>>

\* the host takes a Work Unit off the queue ingest was given
Consume ==
    /\ queue # <<>>
    /\ consumed' = Append(consumed, Head(queue))
    /\ queue' = Tail(queue)
    /\ UNCHANGED <<pc, exc, plan, pos, opened, pending, reads, emitted>>

IngestInit ==
    /\ config \in {c \in Configs : c.use_sha /\ ~c.date_mode /\ c.compactly}
    /\ kind \in {k \in [Nodes -> {"file", "dir", "special"}] :
                   \A n \in Nodes : k[n] \in NodeKinds[n]}
    /\ reversed \in BOOLEAN
    /\ unreadable \in {u \in SUBSET (0..NumNodes) :
                         /\ Cardinality(u) <= 1
                         /\ \A n \in u : n = 0 \/ (NodeExists(n) /\ kind[n] # "dir")}
    /\ IngestIdle
    /\ StoreIdle
    /\ RaceIdle

IngestFrame == UNCHANGED <<storeVars, raceVars, treeVars>>

IngestNext ==
    \/ IngestStart /\ IngestFrame
    \/ QueueRead /\ IngestFrame
    \/ QueuePut /\ IngestFrame
    \/ IngestReturn /\ IngestFrame
    \/ Consume /\ IngestFrame

\* One ingest call and the host consuming its queue
SpecIngest == IngestInit /\ [][IngestNext]_vars

\* The event loop keeps running a coroutine that can go on, and the host
\* keeps taking items off the queue
FairIngest ==
    /\ SpecIngest
    /\ WF_vars(IngestStart /\ IngestFrame)
    /\ WF_vars(QueueRead /\ IngestFrame)
    /\ WF_vars(QueuePut /\ IngestFrame)
    /\ WF_vars(IngestReturn /\ IngestFrame)
    /\ WF_vars(Consume /\ IngestFrame)

----------------------------------------------------------------------------
(* Claims about ingest *)

Indices(q) == 1..Len(q)

\* the Work Unit a file at node n must give: its bytes, its base name and
\* the directory that holds it
ExpectedUnit(n) ==
    IF n = 0
    THEN [content |-> NodeContent(0),
          filename |-> SourceDir[Len(SourceDir)],
          source_dir |-> SubSeq(SourceDir, 1, Len(SourceDir) - 1)]
    ELSE [content |-> NodeContent(n),
          filename |-> NodeName[n],
          source_dir |-> NodePath(NodeParent[n])]

EmittedOnce(n) == Cardinality({i \in Indices(emitted) : emitted[i] = ExpectedUnit(n)}) = 1

\* the immediate entries of source_dir that are regular files and not hidden
FirstLevelVisible ==
    {n \in Nodes : NodeParent[n] = 0 /\ kind[n] = "file" /\ NodeName[n][1] # "."}

\* the regular files at any depth below source_dir
RegularFiles == {n \in Nodes : NodeExists(n) /\ kind[n] = "file"}

\* C6: with source_dir a directory and recursive unset, every Work Unit
\* emitted is that of an immediate, non-hidden, regular file of source_dir
\* and none is emitted twice; when ingest returns, each such file has been
\* emitted exactly once.
C6_NonRecursiveFirstLevelOnly ==
    (config.source_dir = "dir" /\ ~config.recursive) =>
        /\ \A i \in Indices(emitted) :
             \E n \in FirstLevelVisible : emitted[i] = ExpectedUnit(n)
        /\ \A i, j \in Indices(emitted) : emitted[i] = emitted[j] => i = j
        /\ pc = "done" => \A n \in FirstLevelVisible : EmittedOnce(n)

\* C6 witness: a non-recursive ingest has returned from a directory that
\* holds a hidden file, a special file and a subdirectory with files.
C6_Witness ==
    /\ config.source_dir = "dir" /\ ~config.recursive
    /\ pc = "done"
    /\ \E n \in Nodes : NodeParent[n] = 0 /\ kind[n] = "special"
    /\ \E n \in Nodes : NodeParent[n] = 0 /\ kind[n] = "file" /\ StartsWithDot(NodeName[n])
    /\ \E n \in Nodes : NodeParent[n] # 0 /\ NodeExists(n) /\ kind[n] = "file"
    /\ emitted # <<>>

\* C7, as stated: with source_dir a directory and recursive set, an ingest
\* that has returned has emitted every regular file of the subtree exactly
\* once, hidden ones included, with filename its base name and source_dir
\* its directory, and has emitted nothing else.
C7_RecursiveEmitsRegularFilesOnly ==
    (config.source_dir = "dir" /\ config.recursive /\ pc = "done") =>
        /\ \A n \in RegularFiles : EmittedOnce(n)
        /\ \A i \in Indices(emitted) :
             \E n \in RegularFiles : emitted[i] = ExpectedUnit(n)

\* C9: a file that cannot be read ends ingest with the I/O error.  No Work
\* Unit is ever emitted for an unreadable file or for a file after it in
\* traversal order, ingest does not return normally past one, and when the
\* error is raised the Work Units of the files before it are exactly what
\* was emitted; every emitted Work Unit stays on the queue until the host
\* takes it.
C9_ReadErrorAborts ==
    /\ consumed \o queue = emitted
    /\ \A i \in Indices(plan) :
         plan[i] \in unreadable =>
           /\ pc # "done"
           /\ Len(emitted) < i
           /\ \A j \in i..Len(plan) :
                \A k \in Indices(emitted) : emitted[k] # ExpectedUnit(plan[j])
    /\ exc = "OSError" =>
         /\ pc = "raised"
         /\ plan[pos] \in unreadable
         /\ emitted = [i \in 1..(pos - 1) |-> ExpectedUnit(plan[i])]
         /\ opened = {} /\ pending = <<>>

\* C9 witness: the error was raised after some files were emitted and
\* before others were reached, and an emitted Work Unit is still queued.
C9_Witness ==
    /\ exc = "OSError"
    /\ emitted # <<>>
    /\ pos < Len(plan)
    /\ queue # <<>>
    /\ consumed # <<>>

\* C10: ingest handles one file at a time: at most one source file is open
\* and at most one Work Unit waits for the queue, a file is opened only
\* after the queue accepted every earlier Work Unit, the queue never holds
\* more than its maxsize, and while ingest waits for room the current file
\* is open.  With every planned file readable, an ingest that is scheduled
\* fairly beside a host that keeps consuming returns after emitting one
\* Work Unit for each file of its traversal, in order.
C10_OneFileAtATime ==
    /\ [](/\ Cardinality(opened) <= 1
          /\ Len(pending) <= 1
          /\ reads <= Len(emitted) + 1
          /\ Len(queue) <= MaxQueue
          /\ pc = "put" => /\ opened = {NodePath(plan[pos])}
                           /\ pending = <<ExpectedUnit(plan[pos])>>
                           /\ reads = Len(emitted) + 1
          /\ pc # "put" => opened = {} /\ pending = <<>> /\ reads = Len(emitted))
    /\ (config.source_dir # "unset" /\ \A i \in Indices(IngestPlan) : IngestPlan[i] \notin unreadable)
         => <>(/\ pc = "done"
               /\ emitted = [i \in Indices(IngestPlan) |-> ExpectedUnit(IngestPlan[i])])

\* C10 witness: ingest waits on a full queue with the current file open.
C10_Witness ==
    /\ pc = "put"
    /\ Len(queue) = MaxQueue
    /\ Cardinality(opened) = 1
    /\ pos < Len(plan)

====
